---- MODULE Spec2Model ----
(***************************************************************************)
(* kondo: palette registry, color-cycle installation, style application    *)
(* and the lighten/darken color transforms of src/kondo/__init__.py.       *)
(*                                                                         *)
(* Numbers are exact rationals <<n, d>> in lowest terms with d > 0; the    *)
(* Python operators *, + and - on floats are modelled by exact rational    *)
(* arithmetic.                                                             *)
(***************************************************************************)
EXTENDS Integers, Sequences, FiniteSets, TLC

\* ------------------------------------------------------------------ bounds
\* channel values of the enumerated colors are k/GridDen, k in 0..GridDen
GridDen == 3
\* the enumerated f are k/FDen, k in -FDen..2*FDen
FDen == 3
\* enumerated numeric colors have 0..MaxChannels channels
MaxChannels == 4
\* enumerated explicit palettes have at most MaxPaletteLen entries
MaxPaletteLen == 2

\* ------------------------------------------------------- exact arithmetic
Abs(x) == IF x < 0 THEN -x ELSE x

RECURSIVE GCD(_, _)
GCD(a, b) == IF b = 0 THEN a ELSE GCD(b, a % b)

\* the number n/d in lowest terms, d # 0
Rat(n, d) ==
    LET g == GCD(Abs(n), Abs(d))
        s == IF d < 0 THEN -1 ELSE 1
    IN  <<(s * n) \div g, (s * d) \div g>>

Zero == Rat(0, 1)
One == Rat(1, 1)

\* Python's a + b
Add(a, b) ==
    LET g == GCD(a[2], b[2])
        L == (a[2] \div g) * b[2]
    IN  Rat(a[1] * (L \div a[2]) + b[1] * (L \div b[2]), L)

\* Python's a - b
Sub(a, b) == Add(a, <<-b[1], b[2]>>)

\* Python's a * b
Mul(a, b) ==
    LET g1 == GCD(Abs(a[1]), b[2])
        g2 == GCD(Abs(b[1]), a[2])
    IN  Rat((a[1] \div g1) * (b[1] \div g2), (a[2] \div g2) * (b[2] \div g1))

Less(a, b) == Sub(a, b)[1] < 0
Leq(a, b) == Sub(a, b)[1] <= 0

\* --------------------------------------------------------------- values
\* A color is a hex string or a sequence of numbers (list, tuple, array row)
Hex(s) == [kind |-> "str", s |-> s, ch |-> <<>>]
RGB(ch) == [kind |-> "list", s |-> "", ch |-> ch]

None == [kind |-> "None"]
Name(s) == [kind |-> "str", name |-> s]
List(seq) == [kind |-> "list", items |-> seq]

\* the outcome of a call: the value returned, or the exception raised
Return(v) == [err |-> "none", val |-> v]
Raise(e) == [err |-> e, val |-> None]

\* ------------------------------------------------------ color transforms
\* (a mut_ definition is a faulty variant of the definition that follows it)
mut_lighten_gap_of_val(clr, f) ==
    IF clr.kind = "str" THEN Raise("TypeError")
    ELSE LET gaps == [i \in 1..Len(clr.ch) |-> Mul(f, clr.ch[i])]
             new_clr == [i \in 1..Len(clr.ch) |-> Add(clr.ch[i], gaps[i])]
         IN  Return(new_clr)

Clamp(v) == IF Less(v, Zero) THEN Zero ELSE IF Less(One, v) THEN One ELSE v

mut_lighten_clamped(clr, f) ==
    IF clr.kind = "str" THEN Raise("TypeError")
    ELSE LET gaps == [i \in 1..Len(clr.ch) |-> Mul(f, Sub(One, clr.ch[i]))]
             new_clr == [i \in 1..Len(clr.ch) |-> Clamp(Add(clr.ch[i], gaps[i]))]
         IN  Return(new_clr)

\* lighten(clr, f): iterating a str yields its characters, and 1 - val
\* raises TypeError on the first one, before any list is built
lighten(clr, f) ==
    IF clr.kind = "str" THEN Raise("TypeError")
    ELSE LET gaps == [i \in 1..Len(clr.ch) |-> Mul(f, Sub(One, clr.ch[i]))]
             new_clr == [i \in 1..Len(clr.ch) |-> Add(clr.ch[i], gaps[i])]
         IN  Return(new_clr)

mut_darken_gap_of_rest(clr, f) ==
    IF clr.kind = "str" THEN Raise("TypeError")
    ELSE LET gaps == [i \in 1..Len(clr.ch) |-> Mul(f, Sub(One, clr.ch[i]))]
             new_clr == [i \in 1..Len(clr.ch) |-> Sub(clr.ch[i], gaps[i])]
         IN  Return(new_clr)

\* darken(clr, f): f * val on a character raises TypeError for a float f
\* and val - gap raises it for an int f
darken(clr, f) ==
    IF clr.kind = "str" THEN Raise("TypeError")
    ELSE LET gaps == [i \in 1..Len(clr.ch) |-> Mul(f, clr.ch[i])]
             new_clr == [i \in 1..Len(clr.ch) |-> Sub(clr.ch[i], gaps[i])]
         IN  Return(new_clr)

mut_lighten_color_checks_shape(color, f) ==
    IF color.kind = "str" THEN Raise("TypeError")
    ELSE IF Len(color.ch) # 3 THEN Raise("ValueError")
    ELSE LET gaps == [i \in 1..Len(color.ch) |-> Mul(f, Sub(One, color.ch[i]))]
             new_clr == [i \in 1..Len(color.ch) |-> Add(color.ch[i], gaps[i])]
         IN  Return(new_clr)

lighten_color(color, f) ==
    IF color.kind = "str" THEN Raise("TypeError")
    ELSE LET gaps == [i \in 1..Len(color.ch) |-> Mul(f, Sub(One, color.ch[i]))]
             new_clr == [i \in 1..Len(color.ch) |-> Add(color.ch[i], gaps[i])]
         IN  Return(new_clr)

darken_color(color, f) ==
    IF color.kind = "str" THEN Raise("TypeError")
    ELSE LET gaps == [i \in 1..Len(color.ch) |-> Mul(f, color.ch[i])]
             new_clr == [i \in 1..Len(color.ch) |-> Sub(color.ch[i], gaps[i])]
         IN  Return(new_clr)

\* lighten_palette(palette, f): the list comprehension builds a new list and
\* an exception raised for one entry leaves no list at all
Comprehension(outs) ==
    IF \E i \in 1..Len(outs) : outs[i].err # "none"
    THEN outs[CHOOSE i \in 1..Len(outs) :
                 /\ outs[i].err # "none"
                 /\ \A j \in 1..(i - 1) : outs[j].err = "none"]
    ELSE Return([i \in 1..Len(outs) |-> outs[i].val])

lighten_palette(palette, f) ==
    Comprehension([i \in 1..Len(palette) |-> lighten_color(palette[i], f)])

darken_palette(palette, f) ==
    Comprehension([i \in 1..Len(palette) |-> darken_color(palette[i], f)])

\* ------------------------------------------------------ palette registry
D(n, d) == RGB(<<Rat(n[1], d), Rat(n[2], d), Rat(n[3], d)>>)

PALETTES ==
    [tianyi |-> <<Hex("#1d437d"), Hex("#ee442f"), Hex("#0099ad"),
                  Hex("#dec923"), Hex("#a95aa1"), Hex("#f78f1e"),
                  Hex("#ccbe9f"), Hex("#29562a"), Hex("#99cc83")>>,
     bmh |-> <<Hex("#348ABD"), Hex("#A60628"), Hex("#7A68A6"),
               Hex("#467821"), Hex("#D55E00"), Hex("#CC79A7"),
               Hex("#56B4E9"), Hex("#009E73"), Hex("#F0E442"),
               Hex("#0072B2")>>,
     fivethirtyeight |-> <<Hex("#008fd5"), Hex("#fc4f30"), Hex("#e5ae38"),
                           Hex("#6d904f"), Hex("#8b8b8b"), Hex("#810f7c")>>,
     ggplot |-> <<Hex("#E24A33"), Hex("#348ABD"), Hex("#988ED5"),
                  Hex("#777777"), Hex("#FBC15E"), Hex("#8EBA42"),
                  Hex("#FFB5B8")>>]
    @@ ("solarized-light" :>
            <<Hex("#268BD2"), Hex("#2AA198"), Hex("#859900"), Hex("#B58900"),
              Hex("#CB4B16"), Hex("#DC322F"), Hex("#D33682"), Hex("#6C71C4")>>)
    @@ ("degas-high-contrast" :>
            <<RGB(<<Rat(372549, 1000000), Rat(596078, 1000000), Rat(1, 1)>>),
              RGB(<<Rat(1, 1), Rat(3882, 10000), Rat(2784, 10000)>>),
              D(<<20784314, 67843137, 60000000>>, 100000000),
              D(<<59607843, 25882353, 89019608>>, 100000000),
              RGB(<<Rat(803922, 1000000), Rat(627451, 10000000),
                    Rat(462745, 1000000)>>),
              D(<<917647, 682353, 105882>>, 1000000),
              D(<<7, 7, 7>>, 10)>>)
    @@ ("degas-pastel-rainbow" :>
            <<D(<<221, 59, 53>>, 255), D(<<211, 132, 71>>, 255),
              D(<<237, 157, 63>>, 255), D(<<165, 180, 133>>, 255),
              D(<<63, 148, 109>>, 255), D(<<50, 122, 137>>, 255),
              D(<<44, 115, 178>>, 255), D(<<43, 52, 124>>, 255)>>)

\* PALETTES[palette_name]: an exact dictionary lookup
get_palette(P, palette_name) ==
    IF palette_name \in DOMAIN P THEN Return(P[palette_name])
    ELSE Raise("KeyError")

\* ---------------------------------------------------- global style state
COMMON == "common.mplstyle"

\* matplotlib's default axes.prop_cycle, restored by plt.style.use("default")
DefaultCycle ==
    <<Hex("#1f77b4"), Hex("#ff7f0e"), Hex("#2ca02c"), Hex("#d62728"),
      Hex("#9467bd"), Hex("#8c564b"), Hex("#e377c2"), Hex("#7f7f7f"),
      Hex("#bcbd22"), Hex("#17becf")>>

rcParamsDefault == ("axes.prop_cycle" :> DefaultCycle) @@ ("sheets" :> <<>>)

\* what a style sheet under STYLE_DIR can hold: it sets axes.prop_cycle or
\* leaves it alone (its other settings are tracked in rcParams["sheets"])
NoCycle == [has_cycle |-> FALSE, cycle |-> <<>>]
SheetCycle(cycle) == [has_cycle |-> TRUE, cycle |-> cycle]
StyleSheets(s) ==
    IF s = COMMON
    THEN {NoCycle, SheetCycle(<<Hex("#000000"), Hex("#777777")>>)}
    ELSE {NoCycle, SheetCycle(<<Hex("#E69F00")>>)}

\* rcParams.update(sheet): the settings of the sheets applied since the
\* defaults, in the order of their last application
Without(seq, x) == SelectSeq(seq, LAMBDA y : y # x)

apply_sheet(rc, s, sheet) ==
    [rc EXCEPT !["sheets"] = Append(Without(@, s), s),
               !["axes.prop_cycle"] = IF sheet.has_cycle THEN sheet.cycle ELSE @]

\* plt.style.use(styles): the sheets are read and applied one after the
\* other; a sheet that is no file raises OSError, the earlier ones applied
RECURSIVE style_use(_, _, _)
style_use(rc, files, styles) ==
    IF styles = <<>> THEN [rc |-> rc, out |-> Return(None)]
    ELSE IF Head(styles) \notin DOMAIN files
         THEN [rc |-> rc, out |-> Raise("OSError")]
         ELSE style_use(apply_sheet(rc, Head(styles), files[Head(styles)]),
                        files, Tail(styles))

\* rcParams validates a color cycle when it is assigned: every color is a
\* "#RRGGBB" string or 3 or 4 numbers in [0, 1]
is_color_like(c) ==
    \/ c.kind = "str"
    \/ /\ Len(c.ch) \in {3, 4}
       /\ \A i \in 1..Len(c.ch) : Leq(Zero, c.ch[i]) /\ Leq(c.ch[i], One)

\* set_palette(palette) on registry P and rcParams rc: the new registry,
\* the new rcParams and the outcome
mut_set_palette_extends(P, rc, palette) ==
    LET resolved == IF palette.kind = "str" THEN get_palette(P, palette.name)
                    ELSE Return(palette.items)
    IN  IF resolved.err # "none" THEN [P |-> P, rc |-> rc, out |-> resolved]
        ELSE IF \E i \in 1..Len(resolved.val) : ~is_color_like(resolved.val[i])
        THEN [P |-> P, rc |-> rc, out |-> Raise("ValueError")]
        ELSE [P |-> P,
              rc |-> [rc EXCEPT !["axes.prop_cycle"] = @ \o resolved.val],
              out |-> Return(None)]

mut_set_palette_registers(P, rc, palette) ==
    LET resolved == IF palette.kind = "str" THEN get_palette(P, palette.name)
                    ELSE Return(palette.items)
    IN  IF resolved.err # "none" THEN [P |-> P, rc |-> rc, out |-> resolved]
        ELSE IF \E i \in 1..Len(resolved.val) : ~is_color_like(resolved.val[i])
        THEN [P |-> P, rc |-> rc, out |-> Raise("ValueError")]
        ELSE [P |-> ("active" :> resolved.val) @@ P,
              rc |-> [rc EXCEPT !["axes.prop_cycle"] = resolved.val],
              out |-> Return(None)]

mut_set_palette_fallback(P, rc, palette) ==
    LET resolved == IF palette.kind = "str"
                    THEN IF palette.name \in DOMAIN P
                         THEN get_palette(P, palette.name)
                         ELSE Return(rc["axes.prop_cycle"])
                    ELSE Return(palette.items)
    IN  IF \E i \in 1..Len(resolved.val) : ~is_color_like(resolved.val[i])
        THEN [P |-> P, rc |-> rc, out |-> Raise("ValueError")]
        ELSE [P |-> P,
              rc |-> [rc EXCEPT !["axes.prop_cycle"] = resolved.val],
              out |-> Return(None)]

set_palette(P, rc, palette) ==
    LET resolved == IF palette.kind = "str" THEN get_palette(P, palette.name)
                    ELSE Return(palette.items)
    IN  IF resolved.err # "none" THEN [P |-> P, rc |-> rc, out |-> resolved]
        ELSE IF \E i \in 1..Len(resolved.val) : ~is_color_like(resolved.val[i])
        THEN [P |-> P, rc |-> rc, out |-> Raise("ValueError")]
        ELSE [P |-> P,
              rc |-> [rc EXCEPT !["axes.prop_cycle"] = resolved.val],
              out |-> Return(None)]

\* use_style(style, palette): the style sheets, then the palette
mut_use_style_palette_first(P, rc, files, style, palette) ==
    LET styles == IF style.kind = "None" THEN <<COMMON>>
                  ELSE <<COMMON, style.name \o ".mplstyle">>
        set == IF palette.kind # "None" THEN set_palette(P, rc, palette)
               ELSE [P |-> P, rc |-> rc, out |-> Return(None)]
        used == style_use(set.rc, files, styles)
    IN  IF set.out.err # "none" THEN set
        ELSE [P |-> set.P, rc |-> used.rc, out |-> used.out]

use_style(P, rc, files, style, palette) ==
    LET styles == IF style.kind = "None" THEN <<COMMON>>
                  ELSE <<COMMON, style.name \o ".mplstyle">>
        used == style_use(rc, files, styles)
    IN  IF used.out.err # "none" THEN [P |-> P, rc |-> used.rc, out |-> used.out]
        ELSE IF palette.kind # "None" THEN set_palette(P, used.rc, palette)
        ELSE [P |-> P, rc |-> used.rc, out |-> Return(None)]

\* reset_global_style(): plt.style.use("default")
reset_global_style(P, rc) == [P |-> P, rc |-> rcParamsDefault, out |-> Return(None)]

\* ------------------------------------------------------------------ state
VARIABLES
    palettes,    \* the module-level dict PALETTES
    rcParams,    \* matplotlib's process-wide rcParams
    styles_dir,  \* the style sheets found under STYLE_DIR
    args,        \* the arguments a caller holds for a color transform
    last         \* the latest call: its arguments and its outcome

vars == <<palettes, rcParams, styles_dir, args, last>>

\* the record of a call; arg_after is the argument object after the call,
\* src the call whose result was passed as arg ("" for a fresh argument)
Call(op, arg, f, out) ==
    [op |-> op, arg |-> arg, f |-> f, style |-> None, out |-> out,
     arg_after |-> arg, src |-> ""]

Imported == Call("import", None, Zero, Return(None))
NoArgs == [kind |-> "none", color |-> None, palette |-> <<>>, f |-> Zero]

\* ---------------------------------------------------------------- inputs
ChannelVals == {Rat(k, GridDen) : k \in 0..GridDen}
Fs == {Rat(k, FDen) : k \in (-FDen)..(2 * FDen)}
SeqsUpTo(S, n) == UNION {[1..k -> S] : k \in 0..n}
HexSamples == {Hex("#348ABD"), Hex("#A60628")}
NumColors == {RGB(ch) : ch \in SeqsUpTo(ChannelVals, MaxChannels)}
Colors == NumColors \cup HexSamples
PaletteColors ==
    {RGB(<<v, v, v>>) : v \in ChannelVals} \cup {RGB(<<Zero, One, v>>) : v \in ChannelVals}
RegisteredPalettes == {PALETTES[n] : n \in DOMAIN PALETTES}
ArgPalettes ==
    SeqsUpTo(PaletteColors, MaxPaletteLen)
        \cup RegisteredPalettes
        \cup {<<RGB(<<Zero, Zero, Zero>>), Hex("#348ABD"), RGB(<<One, One>>)>>}

Black == RGB(<<Zero, Zero, Zero>>)
UnknownNames == {"BMH", "bm", "nonexistent"}
PaletteNames == DOMAIN PALETTES \cup UnknownNames
ExplicitPalettes ==
    {<<Black>>, <<Black, Hex("#348ABD")>>, <<Hex("#348ABD"), Black>>,
     <<RGB(<<Zero, Zero>>)>>, <<Black, RGB(<<Rat(2, 1), Zero, Zero>>)>>}
PaletteArgs == {Name(n) : n \in PaletteNames} \cup {List(p) : p \in ExplicitPalettes}
StyleArgs == {None, Name("paper"), Name("nosuch")}
SampleColors == {Black, Hex("#348ABD")}
SampleFs == {Rat(1, 3), Rat(2, 1)}
SamplePalettes == {PALETTES["bmh"], PALETTES["degas-high-contrast"], <<Black>>}

\* ---------------------------------------------------------------- actions
GetPalette(name) ==
    /\ last' = Call("get_palette", Name(name), Zero, get_palette(palettes, name))
    /\ UNCHANGED <<palettes, rcParams, styles_dir, args>>

SetPalette(palette) ==
    LET res == set_palette(palettes, rcParams, palette)
    IN  /\ last' = Call("set_palette", palette, Zero, res.out)
        /\ palettes' = res.P
        /\ rcParams' = res.rc
        /\ UNCHANGED <<styles_dir, args>>

UseStyle(style, palette) ==
    LET res == use_style(palettes, rcParams, styles_dir, style, palette)
    IN  /\ last' = [Call("use_style", palette, Zero, res.out) EXCEPT !.style = style]
        /\ palettes' = res.P
        /\ rcParams' = res.rc
        /\ UNCHANGED <<styles_dir, args>>

ResetGlobalStyle ==
    LET res == reset_global_style(palettes, rcParams)
    IN  /\ last' = Call("reset_global_style", None, Zero, res.out)
        /\ palettes' = res.P
        /\ rcParams' = res.rc
        /\ UNCHANGED <<styles_dir, args>>

Lighten(clr, f) ==
    /\ last' = Call("lighten", clr, f, lighten(clr, f))
    /\ UNCHANGED <<palettes, rcParams, styles_dir, args>>

Darken(clr, f) ==
    /\ last' = Call("darken", clr, f, darken(clr, f))
    /\ UNCHANGED <<palettes, rcParams, styles_dir, args>>

LightenColor(color, f) ==
    /\ last' = Call("lighten_color", color, f, lighten_color(color, f))
    /\ UNCHANGED <<palettes, rcParams, styles_dir, args>>

DarkenColor(color, f) ==
    /\ last' = Call("darken_color", color, f, darken_color(color, f))
    /\ UNCHANGED <<palettes, rcParams, styles_dir, args>>

\* the palette as a cycle of colors: each entry a list of numbers
AsColors(val) == [i \in 1..Len(val) |-> RGB(val[i])]

mut_LightenPalette_installs(palette, f) ==
    LET out == lighten_palette(palette, f)
    IN  /\ last' = Call("lighten_palette", palette, f, out)
        /\ rcParams' = IF out.err = "none"
                       THEN [rcParams EXCEPT !["axes.prop_cycle"] = AsColors(out.val)]
                       ELSE rcParams
        /\ UNCHANGED <<palettes, styles_dir, args>>

mut_LightenPalette_in_place(palette, f) ==
    LET out == lighten_palette(palette, f)
    IN  /\ last' = [Call("lighten_palette", palette, f, out) EXCEPT
                       !.arg_after = IF out.err = "none" THEN AsColors(out.val)
                                     ELSE palette]
        /\ UNCHANGED <<palettes, rcParams, styles_dir, args>>

LightenPalette(palette, f) ==
    /\ last' = Call("lighten_palette", palette, f, lighten_palette(palette, f))
    /\ UNCHANGED <<palettes, rcParams, styles_dir, args>>

DarkenPalette(palette, f) ==
    /\ last' = Call("darken_palette", palette, f, darken_palette(palette, f))
    /\ UNCHANGED <<palettes, rcParams, styles_dir, args>>

\* darken(lighten(c, f), f): the color just returned by lighten is darkened
DarkenLightened ==
    /\ last.op = "lighten" /\ last.src = "" /\ last.out.err = "none"
    /\ last' = [Call("darken", RGB(last.out.val), last.f,
                     darken(RGB(last.out.val), last.f)) EXCEPT !.src = "lighten"]
    /\ UNCHANGED <<palettes, rcParams, styles_dir, args>>

\* ------------------------------------------------------- the session
Init ==
    /\ palettes = PALETTES
    /\ rcParams = rcParamsDefault
    /\ styles_dir \in {(COMMON :> c) @@ ("paper.mplstyle" :> p) :
                          c \in StyleSheets(COMMON), p \in StyleSheets("paper.mplstyle")}
    /\ args = NoArgs
    /\ last = Imported

Next ==
    \/ \E name \in PaletteNames : GetPalette(name)
    \/ \E palette \in PaletteArgs : SetPalette(palette)
    \/ \E style \in StyleArgs, palette \in {None} \cup PaletteArgs : UseStyle(style, palette)
    \/ ResetGlobalStyle
    \/ \E clr \in SampleColors, f \in SampleFs : Lighten(clr, f)
    \/ \E clr \in SampleColors, f \in SampleFs : Darken(clr, f)
    \/ \E color \in SampleColors, f \in SampleFs : LightenColor(color, f)
    \/ \E color \in SampleColors, f \in SampleFs : DarkenColor(color, f)
    \/ \E palette \in SamplePalettes, f \in SampleFs : LightenPalette(palette, f)
    \/ \E palette \in SamplePalettes, f \in SampleFs : DarkenPalette(palette, f)

Spec == Init /\ [][Next]_vars

\* ------------------------------------------- the transforms on their own
\* a caller holds a color or a palette and an f, and calls one transform
InitColor ==
    /\ palettes = PALETTES
    /\ rcParams = rcParamsDefault
    /\ styles_dir = (COMMON :> NoCycle) @@ ("paper.mplstyle" :> NoCycle)
    /\ args \in [kind : {"color"}, color : Colors, palette : {<<>>}, f : Fs]
                    \cup [kind : {"palette"}, color : {None}, palette : ArgPalettes, f : Fs]
    /\ last = Imported

Fresh(kind) == last.op = "import" /\ args.kind = kind

NextColor ==
    \/ Fresh("color") /\ Lighten(args.color, args.f)
    \/ Fresh("color") /\ Darken(args.color, args.f)
    \/ Fresh("color") /\ LightenColor(args.color, args.f)
    \/ Fresh("color") /\ DarkenColor(args.color, args.f)
    \/ Fresh("palette") /\ LightenPalette(args.palette, args.f)
    \/ Fresh("palette") /\ DarkenPalette(args.palette, args.f)
    \/ DarkenLightened

SpecColor == InitColor /\ [][NextColor]_vars
\* ================================================================ claims
Cycle == rcParams["axes.prop_cycle"]
Transforms == {"lighten", "darken", "lighten_color", "darken_color"}
PaletteTransforms == {"lighten_palette", "darken_palette"}
White == RGB(<<One, One, One>>)
Two == Rat(2, 1)
InUnit(v) == Leq(Zero, v) /\ Leq(v, One)
IsRegistered(palette) == palette.kind = "str" /\ palette.name \in DOMAIN PALETTES
IsUnknown(palette) == palette.kind = "str" /\ palette.name \notin DOMAIN PALETTES

\* C1: after a successful set_palette(p) the active color cycle is exactly
\* the resolved palette, same order and length: the registry entry for a
\* registered name, the given sequence for an explicit one; so after any
\* run of successful calls it is the one resolved by the latest call.
C1_SetPaletteInstallsResolved ==
    (last.op = "set_palette" /\ last.out.err = "none") =>
        /\ last.arg.kind = "str" =>
              /\ last.arg.name \in DOMAIN PALETTES
              /\ Cycle = PALETTES[last.arg.name]
        /\ last.arg.kind = "list" => Cycle = last.arg.items

C1_Witness ==
    /\ last.op = "set_palette" /\ last.out.err = "none"
    /\ last.arg = List(<<Hex("#348ABD"), Black>>)
    /\ Cycle = <<Hex("#348ABD"), Black>>
    /\ rcParams["sheets"] # <<>>

\* C2: get_palette(name) and set_palette(name) with a name that is no key
\* of the registry ("BMH", "bm", "nonexistent") raise the unknown-key error
\* and leave the active color cycle and the registry as they were.
C2_UnknownNameFailsWithoutEffect ==
    [][(last'.op \in {"get_palette", "set_palette"} /\ IsUnknown(last'.arg)) =>
           /\ last'.out.err = "KeyError"
           /\ rcParams' = rcParams
           /\ palettes' = palettes]_vars

C2_Witness ==
    /\ last.op = "set_palette" /\ last.arg = Name("BMH")
    /\ last.out.err = "KeyError"
    /\ Cycle = PALETTES["bmh"]

\* C3: get_palette(N) returns the non-empty sequence registered for N (the
\* first entry of "bmh" is "#348ABD"), the same on every later call: no
\* operation changes the registry after it is constructed.
C3_RegistryIsFixed ==
    /\ palettes = PALETTES
    /\ \A n \in DOMAIN PALETTES :
          /\ get_palette(palettes, n) = Return(PALETTES[n])
          /\ Len(PALETTES[n]) > 0
    /\ get_palette(palettes, "bmh").val[1] = Hex("#348ABD")
    /\ (last.op = "get_palette" /\ IsRegistered(last.arg)) =>
          last.out = Return(PALETTES[last.arg.name])

C3_Witness ==
    /\ last.op = "get_palette" /\ last.arg = Name("bmh")
    /\ last.out.err = "none" /\ last.out.val[1] = Hex("#348ABD")
    /\ Cycle = PALETTES["ggplot"]
    /\ rcParams["sheets"] = <<COMMON, "paper.mplstyle">>

\* C4: lighten(c, f) returns v + f*(1 - v) and darken(c, f) returns
\* v - f*v, channel by channel; f = 0 returns c, f = 1 gives all 1
\* (lighten) or all 0 (darken), lighten((0,0,0), 1/3) = (1/3,1/3,1/3) and
\* darken((1,1,1), 1/3) = (2/3,2/3,2/3).
C4_PerChannelFormula ==
    (last.op \in {"lighten", "darken"} /\ last.arg.kind = "list") =>
        /\ last.out.err = "none"
        /\ Len(last.out.val) = Len(last.arg.ch)
        /\ \A i \in 1..Len(last.arg.ch) :
              LET v == last.arg.ch[i]
                  w == last.out.val[i]
              IN  /\ last.op = "lighten" =>
                        Sub(One, w) = Mul(Sub(One, last.f), Sub(One, v))
                  /\ last.op = "darken" => w = Mul(Sub(One, last.f), v)
                  /\ last.f = Zero => w = v
                  /\ last.f = One => w = IF last.op = "lighten" THEN One ELSE Zero
        /\ (last.op = "lighten" /\ last.arg = Black /\ last.f = Rat(1, 3)) =>
              last.out.val = <<Rat(1, 3), Rat(1, 3), Rat(1, 3)>>
        /\ (last.op = "darken" /\ last.arg = White /\ last.f = Rat(1, 3)) =>
              last.out.val = <<Rat(2, 3), Rat(2, 3), Rat(2, 3)>>

C4_Witness ==
    /\ last.op = "lighten" /\ last.arg = RGB(<<Zero, Rat(1, 3), One>>)
    /\ last.f = Rat(1, 3)
    /\ last.out.val = <<Rat(1, 3), Rat(5, 9), One>>

\* the color c that was lightened and then darkened with the same f
RoundTrip == last.op = "darken" /\ last.src = "lighten"

\* C5 as stated: darken(lighten(c, f), f) reproduces c only when f = 0 and
\* differs from c for every other f.
C5_RoundTripOnlyAtZero ==
    (RoundTrip /\ Len(args.color.ch) = 3) =>
        (last.out.val = args.color.ch <=> last.f = Zero)

\* C5, amended: darken(lighten(c, f), f) reproduces a channel v exactly
\* when f = 0 or (2 - f)*v = 1 - f; so f = 0 always reproduces c, f = 1
\* yields all channels 0 (reproducing black), and every other channel
\* value is changed.
C5_RoundTripFixedPoints ==
    RoundTrip =>
        /\ last.out.err = "none"
        /\ Len(last.out.val) = Len(args.color.ch)
        /\ \A i \in 1..Len(args.color.ch) :
              LET v == args.color.ch[i]
                  w == last.out.val[i]
              IN  /\ (w = v) <=>
                        \/ last.f = Zero
                        \/ Mul(Sub(Two, last.f), v) = Sub(One, last.f)
                  /\ last.f = One => w = Zero

C5_Witness ==
    /\ RoundTrip /\ last.f = Rat(-1, 1)
    /\ args.color = RGB(<<Rat(2, 3), Rat(2, 3), Rat(2, 3)>>)
    /\ last.arg = RGB(<<Rat(1, 3), Rat(1, 3), Rat(1, 3)>>)
    /\ last.out.val = args.color.ch

IsNumericPalette(palette) == \A i \in 1..Len(palette) : palette[i].kind = "list"

\* C6: lighten_palette(P, f) and darken_palette(P, f) on a palette of
\* numeric colors return a new sequence as long as P whose i-th entry is
\* lighten(P[i], f), respectively darken(P[i], f), and leave P unmodified.
C6_PaletteTransformIsElementwise ==
    (last.op \in PaletteTransforms /\ IsNumericPalette(last.arg)) =>
        /\ last.out.err = "none"
        /\ Len(last.out.val) = Len(last.arg)
        /\ \A i \in 1..Len(last.arg) :
              last.out.val[i] = IF last.op = "lighten_palette"
                                THEN lighten(last.arg[i], last.f).val
                                ELSE darken(last.arg[i], last.f).val
        /\ last.arg_after = last.arg

C6_Witness ==
    /\ last.op = "lighten_palette" /\ last.f = Rat(1, 3)
    /\ last.arg = <<Black, RGB(<<Zero, One, Rat(1, 3)>>)>>
    /\ last.out.val = <<<<Rat(1, 3), Rat(1, 3), Rat(1, 3)>>,
                        <<Rat(1, 3), One, Rat(5, 9)>>>>
    /\ last.arg_after = last.arg

\* C7 as stated: a color transform whose input does not have exactly three
\* numeric channels (a hex string, or one, two or four numbers) fails with
\* an error.
C7_WrongShapeFails ==
    (last.op \in Transforms
        /\ \/ last.arg.kind = "str"
           \/ last.arg.kind = "list" /\ Len(last.arg.ch) \in {1, 2, 4}) =>
        last.out.err # "none"

\* C7, amended: a color transform given a hex string fails with a type
\* error and returns nothing; given a sequence of n numbers it succeeds
\* for every n, not only n = 3, and returns n transformed channels.
C7_OnlyStringsFail ==
    last.op \in Transforms =>
        /\ last.arg.kind = "str" => last.out = Raise("TypeError")
        /\ last.arg.kind = "list" =>
              /\ last.out.err = "none"
              /\ Len(last.out.val) = Len(last.arg.ch)
              /\ \A i \in 1..Len(last.arg.ch) :
                    last.out.val[i] =
                        IF last.op \in {"lighten", "lighten_color"}
                        THEN Sub(Add(last.arg.ch[i], last.f),
                                 Mul(last.f, last.arg.ch[i]))
                        ELSE Mul(Sub(One, last.f), last.arg.ch[i])

C7_Witness ==
    /\ last.op = "lighten_color" /\ last.f = Rat(1, 3)
    /\ last.arg = RGB(<<Zero, One>>)
    /\ last.out = Return(<<Rat(1, 3), One>>)

OutOfRangeF == last.op \in {"lighten", "darken"} /\ last.src = ""
                  /\ last.arg.kind = "list" /\ ~InUnit(last.f)

\* C8 as stated: for every f outside [0,1] and every color with channels
\* in [0,1] the call succeeds and produces channel values outside [0,1].
C8_OutOfRangeFLeavesUnit ==
    (OutOfRangeF /\ Len(last.arg.ch) = 3) =>
        /\ last.out.err = "none"
        /\ \E i \in 1..3 : ~InUnit(last.out.val[i])

\* C8, amended: lighten and darken never reject f; for f outside [0,1] and
\* channels v in [0,1] the call succeeds and returns the unclamped value,
\* which lies outside [0,1] exactly when: lighten, f > 1 and v < 1, or
\* f < 0 and v*(1 - f) < -f; darken, f > 1 and v > 0, or f < 0 and
\* v*(1 - f) > 1.
C8_OutOfRangeFIsNotClamped ==
    OutOfRangeF =>
        /\ last.out.err = "none"
        /\ \A i \in 1..Len(last.arg.ch) :
              LET v == last.arg.ch[i]
                  w == last.out.val[i]
                  f == last.f
                  scaled == Mul(v, Sub(One, f))
              IN  InUnit(v) =>
                    (~InUnit(w) <=>
                        IF last.op = "lighten"
                        THEN \/ Less(One, f) /\ Less(v, One)
                             \/ Less(f, Zero) /\ Less(scaled, Sub(Zero, f))
                        ELSE \/ Less(One, f) /\ Less(Zero, v)
                             \/ Less(f, Zero) /\ Less(One, scaled))

C8_Witness ==
    /\ OutOfRangeF /\ last.op = "lighten" /\ last.f = Two
    /\ last.arg = RGB(<<One, Rat(1, 3), Zero>>)
    /\ last.out.val = <<One, Rat(5, 3), Two>>

\* C9: get_palette, lighten, darken, lighten_color, darken_color,
\* lighten_palette and darken_palette, succeeding or failing, leave the
\* process-wide style state, and so the active color cycle, unchanged.
C9_PureCallsKeepStyleState ==
    [][(last'.op \in Transforms \cup PaletteTransforms \cup {"get_palette"}) =>
           rcParams' = rcParams]_vars

C9_Witness ==
    /\ last.op = "lighten_palette" /\ last.out.err = "none"
    /\ last.arg = PALETTES["degas-high-contrast"]
    /\ Cycle = PALETTES["bmh"]

\* the style sheets use_style(style, ...) names
SheetsOf(style) ==
    IF style.kind = "None" THEN <<COMMON>>
    ELSE <<COMMON, style.name \o ".mplstyle">>

\* the color cycle the sheets leave, starting from cycle
RECURSIVE LeftBySheets(_, _)
LeftBySheets(cycle, sheets) ==
    IF sheets = <<>> THEN cycle
    ELSE LET sheet == styles_dir[sheets[Len(sheets)]]
         IN  IF sheet.has_cycle THEN sheet.cycle
             ELSE LeftBySheets(cycle, SubSeq(sheets, 1, Len(sheets) - 1))

IsSuffix(s, t) == Len(s) <= Len(t) /\ SubSeq(t, Len(t) - Len(s) + 1, Len(t)) = s

\* C10: use_style(style, palette) applies the style sheets first and the
\* palette second: a palette that resolves ends up as the active cycle
\* whatever the sheets set; with palette None the cycle is the one the
\* sheets leave; with an unknown name the unknown-key error comes after
\* the sheets were applied, and their settings stay in effect.
C10_StyleSheetsThenPalette ==
    [][(/\ last'.op = "use_style"
        /\ \A i \in 1..Len(SheetsOf(last'.style)) :
              SheetsOf(last'.style)[i] \in DOMAIN styles_dir) =>
           LET palette == last'.arg
               sheets == SheetsOf(last'.style)
           IN  /\ IsSuffix(sheets, rcParams'["sheets"])
               /\ palette.kind = "None" =>
                     /\ last'.out.err = "none"
                     /\ rcParams'["axes.prop_cycle"] = LeftBySheets(Cycle, sheets)
               /\ IsRegistered(palette) =>
                     /\ last'.out.err = "none"
                     /\ rcParams'["axes.prop_cycle"] = PALETTES[palette.name]
               /\ (/\ palette.kind = "list"
                   /\ \A i \in 1..Len(palette.items) : is_color_like(palette.items[i])) =>
                     /\ last'.out.err = "none"
                     /\ rcParams'["axes.prop_cycle"] = palette.items
               /\ IsUnknown(palette) =>
                     /\ last'.out.err = "KeyError"
                     /\ rcParams'["axes.prop_cycle"] = LeftBySheets(Cycle, sheets)]_vars

C10_Witness ==
    /\ last.op = "use_style" /\ last.style = Name("paper")
    /\ last.arg = Name("bm") /\ last.out.err = "KeyError"
    /\ styles_dir["paper.mplstyle"].has_cycle
    /\ rcParams["sheets"] = <<COMMON, "paper.mplstyle">>
    /\ Cycle = styles_dir["paper.mplstyle"].cycle
====
